---------------------------- MODULE Spec2Model ----------------------------
(***************************************************************************)
(* Partition pooling (src/layer.py, src/algorithm.py).                     *)
(*                                                                         *)
(* A pooling layer is built from a partition spec (a list of index lists). *)
(* adjustPartitionLength pads every group to the length of the longest one *)
(* and builds a float64 table of correction weights; the Sum and Average   *)
(* layers cast that table to float32, the Average layer also keeps the     *)
(* float32 cast of its float64 row sums.  A call gathers the input tensor  *)
(* along the node axis and reduces it (max, weighted sum, weighted mean)   *)
(* in float32.                                                             *)
(*                                                                         *)
(* Floating point is modelled bit-exactly (round to nearest, ties to       *)
(* even).  The exponent range is not modelled: every value of the model   *)
(* is far from the overflow and underflow thresholds.  Infinity and NaN    *)
(* arise from a division by zero only.                                     *)
(***************************************************************************)
EXTENDS Integers, Sequences, FiniteSets, TLC

(***************************************************************************)
(* float32: value = s * m * 2^e, s in {1,-1}, 2^23 <= m < 2^24, or zero.   *)
(***************************************************************************)
F32Zero == [s |-> 1, m |-> 0, e |-> 0]

\* the number of bits of n > 0
RECURSIVE BitLen(_)
BitLen(n) == IF n = 0 THEN 0 ELSE 1 + BitLen(n \div 2)

\* round s * (n + f) * 2^e to float32, where 0 <= f < 1 and f > 0 iff st = 1;
\* n carries at least two bits below the float32 mantissa whenever st = 1
F32Norm(s, n, e, st) ==
  IF n = 0 THEN F32Zero
  ELSE LET len == BitLen(n) IN
    IF len <= 24
    THEN [s |-> s, m |-> n * 2^(24 - len), e |-> e - (24 - len)]
    ELSE LET k    == len - 24
             q    == n \div 2^k
             r    == n % 2^k
             half == 2^(k - 1)
             up   == \/ r > half
                     \/ r = half /\ st = 1
                     \/ r = half /\ st = 0 /\ q % 2 = 1
             q1   == IF up THEN q + 1 ELSE q
         IN  IF q1 = 2^24
             THEN [s |-> s, m |-> 2^23, e |-> e + k + 1]
             ELSE [s |-> s, m |-> q1, e |-> e + k]

F32FromInt(k) == F32Norm(IF k < 0 THEN -1 ELSE 1, IF k < 0 THEN -k ELSE k, 0, 0)

\* tf.math.multiply on float32: the 48-bit product of the mantissas, rounded
F32Mul(a, b) ==
  IF a.m = 0 \/ b.m = 0 THEN F32Zero
  ELSE LET a1 == a.m \div 4096   a0 == a.m % 4096
           b1 == b.m \div 4096   b0 == b.m % 4096
           t  == a0 * b0
           u  == a1 * b0 + a0 * b1
           lo == t + (u % 4096) * 4096
           L  == lo % 2^24
           H  == a1 * b1 + (u \div 4096) + (lo \div 2^24)
       IN  F32Norm(a.s * b.s, H * 64 + (L \div 2^18), a.e + b.e + 18,
                   IF L % 2^18 = 0 THEN 0 ELSE 1)

\* float32 addition (one step of tf.math.reduce_sum)
F32Add(a, b) ==
  IF a.m = 0 THEN b
  ELSE IF b.m = 0 THEN a
  ELSE LET hi == IF a.e >= b.e THEN a ELSE b
           lo == IF a.e >= b.e THEN b ELSE a
           d  == hi.e - lo.e
           A  == hi.m * 64
           B  == IF d <= 6 THEN lo.m * 2^(6 - d)
                 ELSE IF d >= 31 THEN 0
                 ELSE lo.m \div 2^(d - 6)
           st == IF d <= 6 THEN 0
                 ELSE IF d >= 31 THEN 1
                 ELSE IF lo.m % 2^(d - 6) = 0 THEN 0 ELSE 1
       IN  IF hi.s = lo.s
           THEN F32Norm(hi.s, A + B, hi.e - 6, st)
           ELSE IF A >= B + st
                THEN F32Norm(hi.s, A - B - st, hi.e - 6, st)
                ELSE F32Norm(lo.s, B - A, hi.e - 6, 0)

\* the quotient of two mantissas to 28 bits and the remainder (long division)
RECURSIVE DivSteps(_, _, _, _)
DivSteps(q, r, mb, k) ==
  IF k = 0 THEN <<q, r>>
  ELSE DivSteps(2 * q + ((2 * r) \div mb), (2 * r) % mb, mb, k - 1)

F32Inf == [s |-> 1, m |-> 0, e |-> 1]
F32NaN == [s |-> 1, m |-> 0, e |-> 2]

\* tf.math.divide on float32; x/0 is inf (sign dropped), 0/0 is nan
F32Div(a, b) ==
  IF b.m = 0 THEN (IF a.m = 0 THEN F32NaN ELSE F32Inf)
  ELSE IF a.m = 0 THEN F32Zero
  ELSE LET qr == DivSteps(a.m \div b.m, a.m % b.m, b.m, 27)
       IN  F32Norm(a.s * b.s, qr[1], a.e - b.e - 27, IF qr[2] = 0 THEN 0 ELSE 1)

\* a < b
F32Less(a, b) ==
  LET mag(x, y) == \* |x| < |y|
        IF x.m = 0 THEN y.m # 0
        ELSE IF y.m = 0 THEN FALSE
        ELSE x.e < y.e \/ (x.e = y.e /\ x.m < y.m)
      neg(x) == x.m # 0 /\ x.s = -1
  IN  IF neg(a) /\ ~neg(b) THEN TRUE
      ELSE IF ~neg(a) /\ neg(b) THEN FALSE
      ELSE IF neg(a) THEN mag(b, a)
      ELSE mag(a, b)

F32Max2(a, b) == IF F32Less(a, b) THEN b ELSE a

(***************************************************************************)
(* float64 (numpy's default dtype): value = m * 2^e, where the 53-bit      *)
(* mantissa m is kept as four limbs of 14 bits, least significant first    *)
(* (TLC's integers have 32 bits), 2^52 <= m < 2^53, or zero.  Only         *)
(* non-negative values occur: the weight table and its row sums.           *)
(***************************************************************************)
Limb == 2^14

F64Zero == [m |-> <<0, 0, 0, 0>>, e |-> 0]

\* limb i of the natural number x (a sequence of limbs), 0 beyond its length
WLimb(x, i) == IF i >= 1 /\ i <= Len(x) THEN x[i] ELSE 0

\* x * 2^d
WShl(x, d) ==
  LET q == d \div 14
      r == d % 14
  IN  [i \in 1..(Len(x) + q + 1) |->
         ((WLimb(x, i - q) * 2^r) % Limb) + ((WLimb(x, i - q - 1) * 2^r) \div Limb)]

\* x \div 2^k
WShr(x, k) ==
  LET q == k \div 14
      r == k % 14
  IN  [i \in 1..Len(x) |->
         (WLimb(x, i + q) \div 2^r) + (WLimb(x, i + q + 1) % 2^r) * 2^(14 - r)]

\* <<sum limbs from i on, carry out>>
RECURSIVE WAddFrom(_, _, _, _, _)
WAddFrom(x, y, i, n, c) ==
  IF i > n THEN <<c>>
  ELSE LET t == WLimb(x, i) + WLimb(y, i) + c
       IN  <<t % Limb>> \o WAddFrom(x, y, i + 1, n, t \div Limb)

WAdd(x, y) == WAddFrom(x, y, 1, IF Len(x) > Len(y) THEN Len(x) ELSE Len(y), 0)

\* the number of bits of x
WBitLen(x) ==
  LET nz == {i \in 1..Len(x) : x[i] # 0}
      top == CHOOSE i \in nz : \A j \in nz : j <= i
  IN  IF nz = {} THEN 0 ELSE 14 * (top - 1) + BitLen(x[top])

\* bit i of x, bit 0 the least significant
WBit(x, i) == (WLimb(x, (i \div 14) + 1) \div 2^(i % 14)) % 2

\* x % 2^k = 0
WLowZero(x, k) ==
  /\ \A i \in 1..(k \div 14) : WLimb(x, i) = 0
  /\ WLimb(x, (k \div 14) + 1) % 2^(k % 14) = 0

WTrim(x) == [i \in 1..4 |-> WLimb(x, i)]

\* round the exact value (x + f) * 2^e, 0 <= f < 1 and f > 0 iff st = 1
F64Round(x, e, st) ==
  LET len == WBitLen(x) IN
  IF len = 0 THEN F64Zero
  ELSE IF len <= 53
  THEN [m |-> WTrim(WShl(x, 53 - len)), e |-> e - (53 - len)]
  ELSE LET k      == len - 53
           q      == WShr(x, k)
           guard  == WBit(x, k - 1)
           sticky == st = 1 \/ ~WLowZero(x, k - 1)
           up     == guard = 1 /\ (sticky \/ WBit(q, 0) = 1)
           q1     == IF up THEN WAdd(q, <<1>>) ELSE q
       IN  IF WBitLen(q1) = 54
           THEN [m |-> WTrim(WShr(q1, 1)), e |-> e + k + 1]
           ELSE [m |-> WTrim(q1), e |-> e + k]

F64FromInt(k) ==
  F64Round(<<k % Limb, (k \div Limb) % Limb, k \div (Limb * Limb)>>, 0, 0)

F64One == F64FromInt(1)

\* the first c limbs of r/n after the point, least significant first, and
\* the remainder left behind them
RECURSIVE FracLimbs(_, _, _)
FracLimbs(r, n, c) ==
  IF c = 0 THEN <<<<>>, r>>
  ELSE LET t == FracLimbs((r * Limb) % n, n, c - 1)
       IN  <<t[1] \o <<(r * Limb) \div n>>, t[2]>>

\* 1. / n for a Python int 1 <= n < 2^16
F64Recip(n) ==
  LET t == FracLimbs(1 % n, n, 5)
  IN  F64Round(t[1] \o <<1 \div n>>, -70, IF t[2] = 0 THEN 0 ELSE 1)

\* float64 addition (one step of np.sum)
F64Add(a, b) ==
  IF a = F64Zero THEN b
  ELSE IF b = F64Zero THEN a
  ELSE LET hi == IF a.e >= b.e THEN a ELSE b
           lo == IF a.e >= b.e THEN b ELSE a
           d  == hi.e - lo.e
       IN  IF d >= 55 THEN hi \* lo is below half a unit in the last place of hi
           ELSE F64Round(WAdd(WShl(hi.m, d), lo.m), lo.e, 0)

\* tf.constant(..., dtype="float32") of a float64 value
F64ToF32(x) ==
  IF x = F64Zero THEN F32Zero
  ELSE LET top == WShr(x.m, 27)
       IN  F32Norm(1, top[1] + top[2] * Limb, x.e + 27,
                   IF WLowZero(x.m, 27) THEN 0 ELSE 1)

(***************************************************************************)
(* Bounds and input domains.                                               *)
(***************************************************************************)
MaxLen == 3          \* longest group of a partition spec given to a layer
MaxParts == 2        \* most groups of a partition spec
NormMaxLen == 4      \* longest group where only the tables are built

Nodes == 0..1        \* node axis of the feature tensors
Batch == 1..1
Feats == 1..1
Vals == {-7, 5}      \* tensor entries

\* a Python number n/d of a partition spec; an int when d = 1
Num(k) == [n |-> k, d |-> 1]
Frac(k, d) == [n |-> k, d |-> d]

SeqsUpTo(S, lo, hi) == UNION {[1..k -> S] : k \in lo..hi}

Groups(len) == SeqsUpTo({Num(k) : k \in Nodes}, 1, len)

\* the groups that only decide how far the other groups of a spec are padded
Runs(len) == {[j \in 1..k |-> Num(0)] : k \in 1..len}

\* the specs of non-empty groups over Nodes: any group at any place, among
\* copies of a run
ValidSpecs(len) ==
  UNION {{[i \in 1..P |-> IF i = at THEN g ELSE run] :
            g \in Groups(len), at \in 1..P, run \in Runs(len)} :
         P \in 1..MaxParts}

\* groups that break the preconditions, next to two that do not
OddGroups ==
  { <<>>, <<Num(0)>>, <<Num(0), Num(1)>>, <<Num(-1)>>, <<Num(0), Num(-1)>>,
    <<Frac(3, 2)>>, <<Num(2)>> }

Specs == ValidSpecs(MaxLen) \cup SeqsUpTo(OddGroups, 0, MaxParts)

NormSpecs == ValidSpecs(NormMaxLen)

Tensors == [Batch -> [Nodes -> [Feats -> {F32FromInt(v) : v \in Vals}]]]

(***************************************************************************)
(* The state: one pooling instance and the last operation on it.           *)
(***************************************************************************)
VARIABLES
  layer,    \* the instance: its attributes, or NoLayer
  raised,   \* the exception the last operation raised, or "none"
  args,     \* the arguments of the last call
  output    \* the value the last call returned, or None

vars == <<layer, raised, args, output>>

None == <<>>
NoLayer == [kind |-> "None"]

(***************************************************************************)
(* PartitionPooling.adjustPartitionLength                                  *)
(***************************************************************************)
\* int(x): storing into the dtype=int array truncates toward zero
ToInt(x) == IF x.n >= 0 THEN x.n \div x.d ELSE -((-x.n) \div x.d)

SeqMax(l) == CHOOSE m \in {l[i] : i \in 1..Len(l)} : \A i \in 1..Len(l) : l[i] <= m

\* PadEdge with np.pad's default mode: the padding is 0, not the last index
PadConstant(e, lenDiff) ==
  [j \in 1..(Len(e) + lenDiff) |-> IF j <= Len(e) THEN ToInt(e[j]) ELSE 0]

\* PadEdge with mode 'wrap': the padding repeats the group from its start
PadWrap(e, lenDiff) ==
  [j \in 1..(Len(e) + lenDiff) |-> ToInt(e[((j - 1) % Len(e)) + 1])]

\* np.pad(e, (0, lenDiff), 'edge'), stored into a row of the int array
PadEdge(e, lenDiff) ==
  [j \in 1..(Len(e) + lenDiff) |-> ToInt(IF j <= Len(e) THEN e[j] ELSE e[Len(e)])]

\* WeightRow with the slice -lenDiff: the last real slot keeps weight 1
WeightRowPadsOnly(maxLen, lenDiff) ==
  [j \in 1..maxLen |-> IF j > maxLen - lenDiff /\ lenDiff > 0 THEN F64Recip(lenDiff + 1)
                       ELSE F64One]

\* WeightRow without the slice: the whole row gets the reduced weight
WeightRowWhole(maxLen, lenDiff) == [j \in 1..maxLen |-> F64Recip(lenDiff + 1)]

\* a row of np.ones after countWeights[i, -(lenDiff + 1):] = 1. / (lenDiff + 1)
WeightRow(maxLen, lenDiff) ==
  [j \in 1..maxLen |-> IF j > maxLen - (lenDiff + 1) THEN F64Recip(lenDiff + 1)
                       ELSE F64One]

adjustPartitionLength(part) ==
  LET l == [i \in 1..Len(part) |-> Len(part[i])]
      partLen == Len(part)
      maxLen == SeqMax(l)
  IN  IF partLen = 0
      THEN [raised |-> "ValueError"]   \* max() arg is an empty sequence
      ELSE IF \E i \in 1..partLen : l[i] = 0 /\ maxLen - l[i] > 0
      THEN [raised |-> "ValueError"]   \* np.pad: can't extend empty axis
      ELSE [raised |-> "none",
            adjustedPartitions |-> [i \in 1..partLen |-> PadEdge(part[i], maxLen - l[i])],
            countWeights |-> [i \in 1..partLen |-> WeightRow(maxLen, maxLen - l[i])]]

(***************************************************************************)
(* The layers' constructors                                                *)
(***************************************************************************)
\* np.sum over one row: below 8 elements numpy's pairwise sum is the plain loop
RECURSIVE NpSumTo(_, _)
NpSumTo(row, k) == IF k = 0 THEN F64Zero ELSE F64Add(NpSumTo(row, k - 1), row[k])

NpSum(row) == NpSumTo(row, Len(row))

\* tf.constant(table, dtype="float32")
ToFloat32(table) == [i \in 1..Len(table) |-> [j \in 1..Len(table[i]) |-> F64ToF32(table[i][j])]]

PartitionPooling(kind, partitions) ==
  LET t == adjustPartitionLength(partitions)
  IN  IF t.raised # "none" THEN [raised |-> t.raised]
      ELSE [raised |-> "none",
            self |-> [kind |-> kind,
                      partitions |-> partitions,
                      adjustedPartitions |-> t.adjustedPartitions,
                      countWeights |-> t.countWeights,
                      nodeWeights |-> None,
                      partitionSizes |-> None]]

MaxPartitionPooling(partitions) == PartitionPooling("Max", partitions)

SumPartitionPooling(partitions) ==
  LET b == PartitionPooling("Sum", partitions)
  IN  IF b.raised # "none" THEN b
      ELSE [b EXCEPT !.self.nodeWeights = ToFloat32(b.self.countWeights)]

\* AveragePartitionPooling with the row widths as partitionSizes
AveragePartitionPoolingSlots(partitions) ==
  LET b == PartitionPooling("Average", partitions)
      cw == b.self.countWeights
  IN  IF b.raised # "none" THEN b
      ELSE [b EXCEPT !.self.nodeWeights = ToFloat32(cw),
                     !.self.partitionSizes = [i \in 1..Len(cw) |-> F32FromInt(Len(cw[i]))]]

AveragePartitionPooling(partitions) ==
  LET b == PartitionPooling("Average", partitions)
      cw == b.self.countWeights
  IN  IF b.raised # "none" THEN b
      ELSE [b EXCEPT !.self.nodeWeights = ToFloat32(cw),
                     !.self.partitionSizes = [i \in 1..Len(cw) |-> F64ToF32(NpSum(cw[i]))]]

(***************************************************************************)
(* The pooling functions (src/algorithm.py).  A function's value is the    *)
(* set of its outcomes [raised, value]: one, except where the device       *)
(* decides what an out-of-range index does.                                *)
(***************************************************************************)
Max2(a, b) == IF a > b THEN a ELSE b

Ok(v) == [raised |-> "none", value |-> v]
Raise(e) == [raised |-> e, value |-> None]

\* tf.gather(tensor, tf.constant(partitions), batch_dims=0, axis=1)
Gather(tensor, partitions) ==
  LET P == Len(partitions)
      L == Len(partitions[1])
      inRange(k) == k \in DOMAIN tensor[1]
      at(b, k, f) == IF inRange(k) THEN tensor[b][k][f] ELSE F32Zero
      gathered == [b \in DOMAIN tensor |-> [i \in 1..P |-> [j \in 1..L |->
                     [f \in Feats |-> at(b, partitions[i][j], f)]]]]
  IN  IF L = 0
      THEN {Raise("TypeError")}     \* tf.constant([[]]) is float32, not an index type
      ELSE IF \A i \in 1..P, j \in 1..L : inRange(partitions[i][j])
      THEN {Ok(gathered)}
      ELSE {Raise("InvalidArgumentError"),   \* the CPU kernel checks the bounds
            Ok(gathered)}                    \* the GPU kernel stores 0 there

RECURSIVE ReduceMaxTo(_, _, _)
ReduceMaxTo(row, f, k) ==
  IF k = 1 THEN row[1][f] ELSE F32Max2(ReduceMaxTo(row, f, k - 1), row[k][f])

\* tf.math.reduce_max(x, axis=2) of a rank-4 tensor
ReduceMax(x) ==
  [b \in DOMAIN x |-> [i \in DOMAIN x[b] |-> [f \in Feats |->
     ReduceMaxTo(x[b][i], f, Len(x[b][i]))]]]

RECURSIVE ReduceSumTo(_, _, _)
ReduceSumTo(row, f, k) ==
  IF k = 0 THEN F32Zero ELSE F32Add(ReduceSumTo(row, f, k - 1), row[k][f])

\* tf.math.reduce_sum(x, axis=2) of a rank-4 tensor, summed in index order
ReduceSum(x) ==
  [b \in DOMAIN x |-> [i \in DOMAIN x[b] |-> [f \in Feats |->
     ReduceSumTo(x[b][i], f, Len(x[b][i]))]]]

\* two dimensions broadcast when they are equal or one of them is 1
Broadcasts(m, n) == m = n \/ m = 1 \/ n = 1
Pick(i, n) == IF n = 1 THEN 1 ELSE i

\* Product without the weights
ProductUnweighted(g, nodeWeights) == Ok(g)

\* tf.math.multiply(gathered, tf.reshape(nodeWeights, [1, *nodeWeights.shape, 1]))
Product(g, nodeWeights) ==
  LET P  == Len(g[1])
      L  == Len(g[1][1])
      Pw == Len(nodeWeights)
      Lw == Len(nodeWeights[1])
  IN  IF ~(Broadcasts(P, Pw) /\ Broadcasts(L, Lw))
      THEN Raise("InvalidArgumentError")   \* Incompatible shapes
      ELSE Ok([b \in DOMAIN g |-> [i \in 1..Max2(P, Pw) |-> [j \in 1..Max2(L, Lw) |->
                [f \in Feats |-> F32Mul(g[b][Pick(i, P)][Pick(j, L)][f],
                                        nodeWeights[Pick(i, Pw)][Pick(j, Lw)])]]]])

\* tf.math.divide(s, tf.reshape(partitionSizes, [1, *partitionSizes.shape, 1]))
Quotient(s, partitionSizes) ==
  LET P  == Len(s[1])
      Ps == Len(partitionSizes)
  IN  IF ~Broadcasts(P, Ps)
      THEN Raise("InvalidArgumentError")   \* Incompatible shapes
      ELSE Ok([b \in DOMAIN s |-> [i \in 1..Max2(P, Ps) |-> [f \in Feats |->
                F32Div(s[b][Pick(i, P)][f], partitionSizes[Pick(i, Ps)])]]])

maxPartitionPooling(tensor, partitions) ==
  {IF g.raised # "none" THEN g ELSE Ok(ReduceMax(g.value)) : g \in Gather(tensor, partitions)}

WeightedSum(g, nodeWeights) ==
  IF g.raised # "none" THEN g
  ELSE LET product == Product(g.value, nodeWeights)
       IN  IF product.raised # "none" THEN product ELSE Ok(ReduceSum(product.value))

sumPartitionPooling(tensor, nodeWeights, partitions) ==
  {WeightedSum(g, nodeWeights) : g \in Gather(tensor, partitions)}

averagePartitionPooling(tensor, nodeWeights, partitionSizes, partitions) ==
  {LET s == WeightedSum(g, nodeWeights)
   IN  IF s.raised # "none" THEN s ELSE Quotient(s.value, partitionSizes)
   : g \in Gather(tensor, partitions)}

(***************************************************************************)
(* Operations                                                              *)
(***************************************************************************)
\* Layer(partitions): the constructor returns r.self, or raises
Construct(partitions, r) ==
  /\ layer = NoLayer /\ args = None
  /\ raised' = r.raised
  /\ layer' = IF r.raised = "none" THEN r.self ELSE NoLayer
  /\ args' = [partitions |-> partitions]
  /\ output' = None

MaxInit == \E part \in Specs : Construct(part, MaxPartitionPooling(part))

SumInit == \E part \in Specs : Construct(part, SumPartitionPooling(part))

AvgInit == \E part \in Specs : Construct(part, AveragePartitionPooling(part))

\* the tables alone, for specs with longer groups
NormInit == \E part \in NormSpecs : Construct(part, AveragePartitionPooling(part))

\* Call that keeps its result on the instance
CallStoring(a, o) ==
  /\ raised' = o.raised
  /\ output' = o.value
  /\ args' = a
  /\ layer' = IF layer = NoLayer THEN layer ELSE [layer EXCEPT !.partitionSizes = o.value]

\* layer(tensor): the call returns o, or raises
Call(a, o) ==
  /\ raised' = o.raised
  /\ output' = o.value
  /\ args' = a
  /\ UNCHANGED layer

MaxCall ==
  /\ layer.kind = "Max"
  /\ \E tensor \in Tensors :
       \E o \in maxPartitionPooling(tensor, layer.adjustedPartitions) :
         Call([tensor |-> tensor], o)

SumCall ==
  /\ layer.kind = "Sum"
  /\ \E tensor \in Tensors :
       \E o \in sumPartitionPooling(tensor, layer.nodeWeights, layer.adjustedPartitions) :
         Call([tensor |-> tensor], o)

AvgCall ==
  /\ layer.kind = "Average"
  /\ \E tensor \in Tensors :
       \E o \in averagePartitionPooling(tensor, layer.nodeWeights, layer.partitionSizes,
                                        layer.adjustedPartitions) :
         Call([tensor |-> tensor], o)

Init ==
  /\ layer = NoLayer
  /\ raised = "none"
  /\ args = None
  /\ output = None

Next == MaxInit \/ SumInit \/ AvgInit \/ MaxCall \/ SumCall \/ AvgCall

Spec == Init /\ [][Next]_vars

NextNorm == NormInit

SpecNorm == Init /\ [][NextNorm]_vars

(***************************************************************************)
(* The pooling functions called directly, with tables of any shape.        *)
(***************************************************************************)
Shapes == (1..MaxParts) \X (1..MaxLen)

IndexTables == UNION {[1..sh[1] -> [1..sh[2] -> Nodes]] : sh \in Shapes}

Filled(sh, w) == [i \in 1..sh[1] |-> [j \in 1..sh[2] |-> w]]

WeightTables == {Filled(sh, w) : sh \in Shapes, w \in {F32FromInt(1), F64ToF32(F64Recip(2))}}

SizeVectors == {[i \in 1..n |-> F32FromInt(2)] : n \in 1..MaxParts}

SumFn ==
  /\ layer = NoLayer /\ args = None
  /\ \E tensor \in Tensors, nodeWeights \in WeightTables, partitions \in IndexTables :
       \E o \in sumPartitionPooling(tensor, nodeWeights, partitions) :
         Call([tensor |-> tensor, nodeWeights |-> nodeWeights, partitions |-> partitions], o)

AvgFn ==
  /\ layer = NoLayer /\ args = None
  /\ \E tensor \in Tensors, nodeWeights \in WeightTables, partitions \in IndexTables,
        partitionSizes \in SizeVectors :
       \E o \in averagePartitionPooling(tensor, nodeWeights, partitionSizes, partitions) :
         Call([tensor |-> tensor, nodeWeights |-> nodeWeights, partitions |-> partitions,
               partitionSizes |-> partitionSizes], o)

NextFn == SumFn \/ AvgFn

SpecFn == Init /\ [][NextFn]_vars


(***************************************************************************)
(* Vocabulary of the properties                                            *)
(***************************************************************************)
Abs(k) == IF k < 0 THEN -k ELSE k

PowerOfTwo(n) == \E k \in 0..30 : n = 2^k

\* a spec within the preconditions: non-empty, of non-empty groups of node indices
WellFormed(part) ==
  /\ Len(part) >= 1
  /\ \A i \in 1..Len(part) :
       /\ Len(part[i]) >= 1
       /\ \A j \in 1..Len(part[i]) : part[i][j].d = 1 /\ part[i][j].n \in Nodes

Constructed == layer # NoLayer

\* the last operation was a call of the layer, and it returned
Returned == Constructed /\ "tensor" \in DOMAIN args /\ raised = "none"

RawLen(i) == Len(layer.partitions[i])

MaxRawLen == SeqMax([i \in 1..Len(layer.partitions) |-> RawLen(i)])

PadCount(i) == MaxRawLen - RawLen(i)

\* the integer a float32 holds (tensor entries are integers)
IntOf(x) == x.s * (x.m \div 2^(-x.e))

\* the exact sum of the tensor over the occurrences in group i, and of the magnitudes
RECURSIVE RawSumTo(_, _, _, _)
RawSumTo(g, b, f, k) ==
  IF k = 0 THEN 0 ELSE RawSumTo(g, b, f, k - 1) + IntOf(args.tensor[b][g[k].n][f])

RawSum(i, b, f) == RawSumTo(layer.partitions[i], b, f, RawLen(i))

RECURSIVE AbsSumTo(_, _, _, _)
AbsSumTo(g, b, f, k) ==
  IF k = 0 THEN 0 ELSE AbsSumTo(g, b, f, k - 1) + Abs(IntOf(args.tensor[b][g[k].n][f]))

AbsSum(i, b, f) == AbsSumTo(layer.partitions[i], b, f, RawLen(i))

RawMax(i, b, f) ==
  LET vs == {IntOf(args.tensor[b][layer.partitions[i][k].n][f]) : k \in 1..RawLen(i)}
  IN  CHOOSE v \in vs : \A w \in vs : w <= v

\* |x * k - S| <= c * 2^-24 * A, for a float32 x with |x| < 2^24 and integers k, S, c, A
ErrWithin(x, k, S, c, A) ==
  LET sh == -x.e
      D  == Abs(x.s * x.m * k - S * 2^sh)
  IN  IF sh <= 24 THEN D <= (c * A) \div 2^(24 - sh)
      ELSE D <= c * A * 2^(sh - 24)

Cells == {<<b, i, f>> : b \in Batch, i \in 1..Len(layer.partitions), f \in Feats}

\* every weighted partial sum of group i is a float32: the weight is a power
\* of two and the integer magnitudes, scaled by 1/weight, stay below 2^24
ExactCase(i, b, f) ==
  /\ PowerOfTwo(PadCount(i) + 1)
  /\ (PadCount(i) + 1) * AbsSum(i, b, f) < 2^24

(***************************************************************************)
(* C1.  Sum pooling                                                        *)
(***************************************************************************)
SumReturned == Returned /\ layer.kind = "Sum" /\ WellFormed(layer.partitions)

\* C1 as stated: sum pooling returns for every partition, batch element and
\* feature exactly the unweighted sum of the tensor over the raw group,
\* whatever the padding.
SumIsExactSum ==
  SumReturned =>
    \A c \in Cells : output[c[1]][c[2]][c[3]] = F32FromInt(RawSum(c[2], c[1], c[3]))

\* C1 amended: the result is the unweighted sum up to float32 rounding, within
\* (maxLen + 2) * 2^-24 * sum |tensor| of it, and is that sum exactly where
\* the group's weight 1/(padCount + 1) is a power of two and the tensor holds
\* integers with (padCount + 1) * sum |tensor| < 2^24.
SumWithinRounding ==
  SumReturned =>
    \A c \in Cells :
      /\ ErrWithin(output[c[1]][c[2]][c[3]], 1, RawSum(c[2], c[1], c[3]),
                   MaxRawLen + 2, AbsSum(c[2], c[1], c[3]))
      /\ ExactCase(c[2], c[1], c[3]) =>
           output[c[1]][c[2]][c[3]] = F32FromInt(RawSum(c[2], c[1], c[3]))

\* a padded group whose pooled sum is not the sum of its members
SumRoundedCase ==
  /\ SumReturned
  /\ \E c \in Cells :
       /\ PadCount(c[2]) > 0
       /\ output[c[1]][c[2]][c[3]] # F32FromInt(RawSum(c[2], c[1], c[3]))

(***************************************************************************)
(* C2.  Average pooling                                                    *)
(***************************************************************************)
AvgReturned == Returned /\ layer.kind = "Average" /\ WellFormed(layer.partitions)

\* the float32 mean of the raw group
RawMean(i, b, f) == F32Div(F32FromInt(RawSum(i, b, f)), F32FromInt(RawLen(i)))

\* what a layer built from group i alone returns for the same tensor
AloneMean(i, b, f) ==
  LET alone == AveragePartitionPooling(<<layer.partitions[i]>>).self
      outs  == averagePartitionPooling(args.tensor, alone.nodeWeights,
                                       alone.partitionSizes, alone.adjustedPartitions)
  IN  (CHOOSE o \in outs : TRUE).value[b][1][f]

\* C2 as stated: average pooling returns the arithmetic mean of the tensor
\* over the raw group, the same whichever other groups the spec holds.
AverageIsExactMean ==
  AvgReturned =>
    \A c \in Cells :
      /\ output[c[1]][c[2]][c[3]] = RawMean(c[2], c[1], c[3])
      /\ output[c[1]][c[2]][c[3]] = AloneMean(c[2], c[1], c[3])

\* C2 amended: the result is the mean of the raw group up to float32
\* rounding, |result * len - sum| <= (maxLen + 3) * 2^-24 * sum |tensor|;
\* where the group's weight 1/(padCount + 1) is a power of two and the tensor
\* holds integers with (padCount + 1) * sum |tensor| < 2^24 it is the float32
\* mean exactly and the same as without the other groups.
AverageWithinRounding ==
  AvgReturned =>
    \A c \in Cells :
      /\ ErrWithin(output[c[1]][c[2]][c[3]], RawLen(c[2]), RawSum(c[2], c[1], c[3]),
                   MaxRawLen + 3, AbsSum(c[2], c[1], c[3]))
      /\ ExactCase(c[2], c[1], c[3]) =>
           /\ output[c[1]][c[2]][c[3]] = RawMean(c[2], c[1], c[3])
           /\ output[c[1]][c[2]][c[3]] = AloneMean(c[2], c[1], c[3])

\* a padded group whose pooled average differs from the one it has alone
AverageRoundedCase ==
  /\ AvgReturned
  /\ \E c \in Cells :
       /\ PadCount(c[2]) > 0
       /\ output[c[1]][c[2]][c[3]] # AloneMean(c[2], c[1], c[3])

(***************************************************************************)
(* C3.  Row sums of the weight table                                       *)
(***************************************************************************)
NormBuilt == Constructed /\ layer.kind = "Average" /\ WellFormed(layer.partitions)

\* C3 as stated: every row of the weight table sums exactly to the length of
\* its group, and partitionSizes holds that length.
RowSumsExact ==
  NormBuilt =>
    \A i \in 1..Len(layer.partitions) :
      /\ NpSum(layer.countWeights[i]) = F64FromInt(RawLen(i))
      /\ layer.partitionSizes[i] = F32FromInt(RawLen(i))

\* C3 amended: partitionSizes, the float32 cast of the float64 row sums of
\* the weight table, holds exactly the length of each group (never 0); the
\* float64 row sum itself is that length up to rounding, and exactly where
\* the group's weight 1/(padCount + 1) is a power of two.
PartitionSizesExact ==
  NormBuilt =>
    \A i \in 1..Len(layer.partitions) :
      /\ layer.partitionSizes[i] = F32FromInt(RawLen(i))
      /\ layer.partitionSizes[i] # F32Zero
      /\ F64ToF32(NpSum(layer.countWeights[i])) = F32FromInt(RawLen(i))
      /\ PowerOfTwo(PadCount(i) + 1) =>
           NpSum(layer.countWeights[i]) = F64FromInt(RawLen(i))

\* a padded row whose float64 sum is not the group's length
RowSumRoundedCase ==
  /\ NormBuilt
  /\ \E i \in 1..Len(layer.partitions) :
       /\ PadCount(i) > 0
       /\ NpSum(layer.countWeights[i]) # F64FromInt(RawLen(i))
       /\ layer.partitionSizes[i] = F32FromInt(RawLen(i))

(***************************************************************************)
(* C4.  Max pooling                                                        *)
(***************************************************************************)
MaxReturned == Returned /\ layer.kind = "Max" /\ WellFormed(layer.partitions)

\* C4: max pooling over the padded row of the index table yields the max
\* over the unpadded raw group, for every batch element and feature.
MaxIgnoresPadding ==
  MaxReturned =>
    \A c \in Cells : output[c[1]][c[2]][c[3]] = F32FromInt(RawMax(c[2], c[1], c[3]))

\* a padded group whose max is not at node 0 and not at its last member
MaxPaddedCase ==
  /\ MaxReturned
  /\ \E c \in Cells :
       LET g == layer.partitions[c[2]]
           v(n) == IntOf(args.tensor[c[1]][n][c[3]])
       IN  /\ PadCount(c[2]) > 0
           /\ v(g[Len(g)].n) < RawMax(c[2], c[1], c[3])
           /\ v(0) < RawMax(c[2], c[1], c[3])

(***************************************************************************)
(* C5.  The index table                                                    *)
(***************************************************************************)
Perms(n) == {p \in [1..n -> 1..n] : \A i, j \in 1..n : p[i] = p[j] => i = j}

\* C5: the index table has a row per group, of width maxLen; row i is group
\* i's indices in input order followed by copies of its last index, so it
\* holds members of group i only, and permuting the groups permutes the rows.
IndexTableShape ==
  (Constructed /\ WellFormed(layer.partitions)) =>
    LET part == layer.partitions
        tab  == layer.adjustedPartitions
        P    == Len(part)
    IN  /\ Len(tab) = P
        /\ \A i \in 1..P :
             /\ Len(tab[i]) = MaxRawLen
             /\ \A j \in 1..MaxRawLen :
                  /\ j <= RawLen(i) => tab[i][j] = part[i][j].n
                  /\ j > RawLen(i) => tab[i][j] = part[i][RawLen(i)].n
                  /\ \E k \in 1..RawLen(i) : tab[i][j] = part[i][k].n
        /\ \A p \in Perms(P) :
             adjustPartitionLength([i \in 1..P |-> part[p[i]]]).adjustedPartitions
               = [i \in 1..P |-> tab[p[i]]]

\* a padded group that does not come first and whose members differ
IndexTablePaddedCase ==
  /\ Constructed /\ WellFormed(layer.partitions)
  /\ \E i \in 2..Len(layer.partitions) :
       /\ PadCount(i) > 0
       /\ layer.partitions[i][1] # layer.partitions[i][RawLen(i)]

(***************************************************************************)
(* C6.  Empty specs and empty groups                                       *)
(***************************************************************************)
HasEmpty(part) == part = <<>> \/ \E i \in 1..Len(part) : part[i] = <<>>

\* C6: the constructor fails (InvalidPartitionError; any exception counts
\* here) and produces no tables whenever the spec is empty or any group is
\* empty, so no partitionSizes entry is 0.
EmptyGroupsRejected ==
  /\ ("partitions" \in DOMAIN args /\ HasEmpty(args.partitions)) =>
       (raised # "none" /\ layer = NoLayer)
  /\ Constructed => ~HasEmpty(layer.partitions)
  /\ (Constructed /\ layer.kind = "Average") =>
       \A i \in 1..Len(layer.partitionSizes) : layer.partitionSizes[i] # F32Zero

(***************************************************************************)
(* C7.  Negative and non-integer indices                                   *)
(***************************************************************************)
HasBadIndex(part) ==
  \E i \in 1..Len(part) : \E j \in 1..Len(part[i]) : part[i][j].d # 1 \/ part[i][j].n < 0

\* C7: the constructor raises (InvalidPartitionError; any exception counts
\* here) when a group holds a negative or a non-integer index; no index
\* table with a negative or a truncated entry is produced.
BadIndicesRejected ==
  /\ ("partitions" \in DOMAIN args /\ HasBadIndex(args.partitions)) =>
       (raised # "none" /\ layer = NoLayer)
  /\ Constructed =>
       \A i \in 1..Len(layer.partitions) : \A j \in 1..Len(layer.adjustedPartitions[i]) :
         /\ layer.adjustedPartitions[i][j] >= 0
         /\ \E k \in 1..Len(layer.partitions[i]) :
              layer.partitions[i][k] = Num(layer.adjustedPartitions[i][j])

(***************************************************************************)
(* C8.  Weight tables of another shape                                     *)
(***************************************************************************)
Shape(table) == <<Len(table), Len(table[1])>>

\* C8: sumPartitionPooling and averagePartitionPooling raise
\* (ShapeMismatchError; any exception counts here) and return nothing
\* whenever the weight table's shape differs from the index table's.
ShapeMismatchRejected ==
  ("nodeWeights" \in DOMAIN args /\ Shape(args.nodeWeights) # Shape(args.partitions)) =>
    (raised # "none" /\ output = None)

(***************************************************************************)
(* C9.  Calls leave the instance alone                                     *)
(***************************************************************************)
\* the outcomes of calling the instance l on tensor
LayerCall(l, tensor) ==
  CASE l.kind = "Max" -> maxPartitionPooling(tensor, l.adjustedPartitions)
    [] l.kind = "Sum" -> sumPartitionPooling(tensor, l.nodeWeights, l.adjustedPartitions)
    [] l.kind = "Average" -> averagePartitionPooling(tensor, l.nodeWeights, l.partitionSizes,
                                                     l.adjustedPartitions)

\* the instance as its constructor builds it from the raw partitions
Fresh(l) ==
  CASE l.kind = "Max" -> MaxPartitionPooling(l.partitions).self
    [] l.kind = "Sum" -> SumPartitionPooling(l.partitions).self
    [] l.kind = "Average" -> AveragePartitionPooling(l.partitions).self

\* C9: once the instance is built, every call leaves the raw partitions,
\* the index table, the weight table and partitionSizes as construction
\* computed them, and its result is that of the same call on a fresh
\* instance: it depends on the tensor and the tables only.
CallsLeaveTables ==
  [][Constructed =>
       /\ layer' = layer
       /\ layer' = Fresh(layer)
       /\ [raised |-> raised', value |-> output'] \in LayerCall(Fresh(layer), args'.tensor)]_vars

\* a call of a layer with a padded group has returned
CallReturned ==
  /\ Returned
  /\ output # None
  /\ \E c \in Cells : PadCount(c[2]) > 0

(***************************************************************************)
(* C10.  The weight table                                                  *)
(***************************************************************************)
\* C10: in row i of the weight table, with padCount = maxLen - len_i > 0
\* exactly the last padCount + 1 slots hold 1/(padCount + 1) and every
\* earlier slot holds 1.0; with padCount = 0 every slot holds 1.0.
WeightSlots ==
  (Constructed /\ WellFormed(layer.partitions)) =>
    \A i \in 1..Len(layer.partitions) :
      /\ Len(layer.countWeights[i]) = MaxRawLen
      /\ \A j \in 1..MaxRawLen :
           layer.countWeights[i][j] =
             IF PadCount(i) > 0 /\ j >= RawLen(i) THEN F64Recip(PadCount(i) + 1)
             ELSE F64FromInt(1)

\* a row padded by two slots behind two real ones
WeightPaddedCase ==
  /\ Constructed /\ WellFormed(layer.partitions)
  /\ \E i \in 1..Len(layer.partitions) :
       /\ PadCount(i) = 2 /\ RawLen(i) = 2
       /\ layer.countWeights[i][1] # layer.countWeights[i][2]

=============================================================================
